---- MODULE Spec2Model ----
(***************************************************************************)
(* Position lifecycle of the signal bot: an executed order with more than  *)
(* one take-profit level is tracked by the PositionManager and polled by   *)
(* one monitoring task (SignalBot.monitor_position), which closes parts of *)
(* the position at each take-profit level and ratchets the stop-loss.      *)
(*                                                                         *)
(* Volumes are counted in thousandths of a lot (0.01 lot = 10), so that    *)
(* the 40/30/30 split of a volume with two decimals is exact; prices are   *)
(* small integers.  The absent value (Python None) is written None.        *)
(***************************************************************************)
EXTENDS Integers, Sequences, FiniteSets, TLC

\* ---------------------------------------------------------------- bounds
MaxPrice == 2
MaxLots  == 1
MaxStop  == 1
MaxSig   == 2
MaxBalance == 2
MaxCalls == 2
MaxSizePrice == 4
MaxHalfPips == 3
MaxSteps == 4
MaxMessages == 2
MaxTokens == 3

\* ------------------------------------------------------ program constants
NumTPLabels == 4
Tolerance   == 1
TP_PERCENTAGES == <<40, 30, 30>>

None == -1
BUY  == "buy"
SELL == "sell"

Prices     == 1..MaxPrice
PollPrices == 0..(MaxPrice + 1)
Volumes    == {10 * k : k \in 1..MaxLots}
Ladders    == UNION {[1..n -> Prices] : n \in 0..NumTPLabels}

\* An Order as it leaves OrderService.create_order_from_signal: the fields
\* the position lifecycle reads.
Orders == [side : {BUY, SELL}, volume : Volumes,
           stop_loss : {None} \cup (1..MaxStop), take_profits : Ladders]

VARIABLES
    inbox,      \* orders of inbound messages not yet handled
    positions,  \* PositionManager._positions: position id -> ManagedPosition
    tasks,      \* monitoring tasks, in creation order
    broker,     \* volume the broker holds under each position ticket
    closed,     \* ManagedPosition objects removed from tracking, as left
    applied,    \* per position and level, the volume update_after_partial_close subtracted
    failed,     \* per position: the levels whose close call has failed, and whether a stop-loss call has
    last,       \* the step taken last: the poll or the backend calls of one action
    backend,    \* the trading backend in use: "mt5" or "ctrader"
    signal,     \* the parsed Signal under decision
    risk,       \* the RiskManager: its limits and its account balance
    decisions,  \* what create_order_from_signal gave for the signal, call after call
    sizing,     \* one call of calculate_position_size: its arguments and its result
    validation, \* one call of validate_order: the order and what was returned
    messages,   \* the parsed signals of the inbound messages not yet handled
    dry_run,    \* TradingConfig.dry_run
    available,  \* whether the backend is_available()
    initialized,\* the backend's _initialized flag
    handled,    \* one record per run of handle_signal_message or direct place_order call
    text        \* the message under parsing, as the phrases the parser's patterns look for

vars == <<inbox, positions, tasks, broker, closed, applied, failed, last,
          backend, signal, risk, decisions, sizing,
          validation, messages, dry_run, available, initialized, handled, text>>

\* The state of the position lifecycle, and the state of the order decision.
lifecycle == <<inbox, positions, tasks, broker, closed, applied, failed, last, backend>>
decision  == <<signal, risk, decisions, sizing>>
intake    == <<validation, messages, dry_run, available, initialized, handled, text>>

Max(a, b) == IF a >= b THEN a ELSE b

Put(f, k, v) == [x \in (DOMAIN f) \cup {k} |-> IF x = k THEN v ELSE f[x]]
Del(f, k)    == [x \in (DOMAIN f) \ {k} |-> f[x]]

\* ------------------------------------------------------- ManagedPosition
\* Variant: the split is taken of the volume that remains, not of the original.
get_volume_of_remaining(pos, level) ==
    IF level >= Len(TP_PERCENTAGES)
    THEN pos.remaining_volume
    ELSE (pos.remaining_volume * TP_PERCENTAGES[level + 1]) \div 100

get_volume_for_tp_level(pos, level) ==
    IF level >= Len(TP_PERCENTAGES)
    THEN pos.remaining_volume
    ELSE (pos.initial_volume * TP_PERCENTAGES[level + 1]) \div 100

\* Variant: the second level moves the stop to its own price.
get_next_stop_loss_own_level(pos, tp_level) ==
    IF tp_level = 0 THEN pos.entry_price
    ELSE IF tp_level = 1
         THEN (IF Len(pos.take_profits) > 1 THEN pos.take_profits[2]
                                            ELSE pos.entry_price)
         ELSE None

get_next_stop_loss(pos, tp_level) ==
    IF tp_level = 0 THEN pos.entry_price
    ELSE IF tp_level = 1
         THEN (IF Len(pos.take_profits) > 0 THEN pos.take_profits[1]
                                            ELSE pos.entry_price)
         ELSE None

\* Variant: the level is counted as if levels were numbered from one.
mark_tp_hit_from_one(pos, tp_level) ==
    [pos EXCEPT !.tp_hit_count = Max(@, tp_level + 2)]

mark_tp_hit(pos, tp_level) ==
    [pos EXCEPT !.tp_hit_count = Max(@, tp_level + 1)]

\* ------------------------------------------------------- PositionManager
add_position(poss, position_id, order, actual_entry_price) ==
    Put(poss, position_id,
        [side             |-> order.side,
         entry_price      |-> actual_entry_price,
         initial_volume   |-> order.volume,
         remaining_volume |-> order.volume,
         stop_loss        |-> IF order.stop_loss = None THEN 0 ELSE order.stop_loss,
         take_profits     |-> order.take_profits,
         tp_hit_count     |-> 0])

\* get_position returns an entry or None; the callers only test which.
\* Variant: an id that is not tracked gives an empty object, not nothing.
get_position_or_empty(poss, position_id) ==
    IF position_id \in DOMAIN poss THEN {poss[position_id]} ELSE {<<>>}

get_position(poss, position_id) ==
    IF position_id \in DOMAIN poss THEN {poss[position_id]} ELSE {}

remove_position(poss, position_id) ==
    IF position_id \in DOMAIN poss THEN Del(poss, position_id) ELSE poss

is_hit(pos, current_price, tp_price) ==
    IF pos.side = BUY THEN current_price >= tp_price
                      ELSE current_price <= tp_price

\* Variant: the loop stops at the first level that is hit.
hit_levels_first_only(pos, current_price) ==
    LET all == SelectSeq([i \in 1..Len(pos.take_profits) |-> i - 1],
                  LAMBDA tp_level :
                      /\ ~(tp_level < pos.tp_hit_count)
                      /\ is_hit(pos, current_price, pos.take_profits[tp_level + 1]))
    IN  IF all = <<>> THEN <<>> ELSE <<Head(all)>>

\* The take-profit levels (0-based) check_tp_hits reports, in loop order.
hit_levels(pos, current_price) ==
    SelectSeq([i \in 1..Len(pos.take_profits) |-> i - 1],
              LAMBDA tp_level :
                  /\ ~(tp_level < pos.tp_hit_count)
                  /\ is_hit(pos, current_price, pos.take_profits[tp_level + 1]))

check_tp_hits(poss, position_id, current_price) ==
    IF position_id \notin DOMAIN poss THEN <<>>
    ELSE LET managed_pos == poss[position_id]
             levels == hit_levels(managed_pos, current_price)
         IN  [i \in 1..Len(levels) |->
                 [tp_level        |-> levels[i],
                  tp_price        |-> managed_pos.take_profits[levels[i] + 1],
                  volume_to_close |-> get_volume_for_tp_level(managed_pos, levels[i]),
                  new_sl          |-> get_next_stop_loss(managed_pos, levels[i])]]

\* Variant: the closed volume is taken off the original volume.
updated_position_from_initial(managed_pos, tp_level, closed_volume, new_sl) ==
    LET marked == mark_tp_hit(managed_pos, tp_level)
        less   == [marked EXCEPT !.remaining_volume =
                                     managed_pos.initial_volume - closed_volume]
    IN  IF new_sl # None THEN [less EXCEPT !.stop_loss = new_sl] ELSE less

\* The ManagedPosition object after lines 202-206 of update_after_partial_close.
updated_position(managed_pos, tp_level, closed_volume, new_sl) ==
    LET marked == mark_tp_hit(managed_pos, tp_level)
        less   == [marked EXCEPT !.remaining_volume = @ - closed_volume]
    IN  IF new_sl # None THEN [less EXCEPT !.stop_loss = new_sl] ELSE less

\* Variant: no tolerance, and zero does not count as closed.
fully_closed_strict(managed_pos) == managed_pos.remaining_volume < 0

fully_closed(managed_pos) == managed_pos.remaining_volume <= Tolerance

update_after_partial_close(poss, position_id, tp_level, closed_volume, new_sl) ==
    IF position_id \notin DOMAIN poss THEN poss
    ELSE LET managed_pos == updated_position(poss[position_id], tp_level,
                                             closed_volume, new_sl)
         IN  IF fully_closed(managed_pos)
             THEN remove_position(poss, position_id)
             ELSE [poss EXCEPT ![position_id] = managed_pos]

\* ------------------------------------------------------ execution backend
\* MT5Backend.close_position_partial: False when the ticket has no open
\* position or the volume exceeds what the position holds; otherwise the
\* terminal decides.
close_position_partial(brk, position_id, volume) ==
    {FALSE} \cup
    (IF position_id \in DOMAIN brk /\ brk[position_id] > 0
        /\ ~(volume > brk[position_id])
     THEN {TRUE} ELSE {})

\* MT5Backend.modify_position_sl: False when the ticket has no open
\* position; otherwise the terminal decides.
modify_position_sl(brk, position_id) ==
    {FALSE} \cup
    (IF position_id \in DOMAIN brk /\ brk[position_id] > 0 THEN {TRUE} ELSE {})

\* TradingService.close_position_partial and modify_position_sl: False when
\* the backend has no such method, which is the case of the cTrader backend.
service_close_position_partial(bk, brk, position_id, volume) ==
    IF bk = "mt5" THEN close_position_partial(brk, position_id, volume)
                  ELSE {FALSE}

service_modify_position_sl(bk, brk, position_id) ==
    IF bk = "mt5" THEN modify_position_sl(brk, position_id) ELSE {FALSE}

\* The text the bot makes of a backend result that names no order and no
\* deal: str(None).
NoneId == 0

\* The position id handle_signal_message takes from the result of
\* place_order: MT5 returns the ticket of the order; the cTrader backend
\* returns the body of the HTTP response as it came, which may or may not
\* have an order_id or a deal_id.
result_position_id(bk, ticket) ==
    IF bk = "mt5" THEN {ticket} ELSE {ticket, NoneId}

NoStep == [kind |-> "none", task |-> 0, position_id |-> 0, price |-> None,
           tp_level |-> None, volume |-> 0, new_sl |-> None,
           success |-> FALSE, sl_called |-> FALSE, sl_success |-> FALSE]

NoLevels == [l \in 0..(NumTPLabels - 1) |-> 0]

\* No monitoring task is between its price check and the end of its action
\* loop: that stretch of monitor_position has no await.
Idle == \A t \in 1..Len(tasks) : tasks[t].pc # "exec"

\* ------------------------------------------------- the decision at rest
NoSymbol == "none"
NoSide   == "none"

\* A Signal with nothing parsed into it.
NoSignal == [symbol |-> NoSymbol, side |-> NoSide, market_price |-> None,
             buy_range |-> <<>>, sell_range |-> <<>>,
             take_profits |-> <<>>, stop_loss |-> None]

\* The RiskManager built from the default TradingConfig: a balance of 10000,
\* 1 percent risk, volumes from 0.01 to 1.0 lot, 0.01 lot by default.
DefaultRisk == [account_balance |-> 10000, risk_percent |-> 1,
                min_volume |-> 10, max_volume |-> 1000, default_volume |-> 10]

NoSizing == [entry_price |-> None, stop_loss |-> None, result |-> None]

\* No order under validation.
NoValidation == [volume |-> 0, price |-> None, stop_loss |-> None,
                 done |-> FALSE, is_valid |-> FALSE, error |-> "none"]

\* No message waits, and the bot trades live on a backend that is ready.
IntakeAtRest ==
    /\ validation = NoValidation
    /\ messages = <<>>
    /\ dry_run = FALSE
    /\ available = TRUE
    /\ initialized = TRUE
    /\ handled = <<>>
    /\ text = <<>>

DecisionAtRest ==
    /\ signal = NoSignal
    /\ risk = DefaultRisk
    /\ decisions = <<>>
    /\ sizing = NoSizing

LifecycleAtRest ==
    /\ inbox = <<>>
    /\ positions = <<>>
    /\ tasks = <<>>
    /\ broker = <<>>
    /\ closed = <<>>
    /\ applied = <<>>
    /\ failed = <<>>
    /\ last = NoStep
    /\ backend = "mt5"

Init ==
    /\ inbox \in {<<o>> : o \in Orders}
    /\ positions = <<>>
    /\ tasks = <<>>
    /\ broker = <<>>
    /\ closed = <<>>
    /\ applied = <<>>
    /\ failed = <<>>
    /\ last = NoStep
    /\ backend = "mt5"
    /\ DecisionAtRest
    /\ IntakeAtRest

\* SignalBot.handle_signal_message from the execute_order call on.
ExecuteRejected ==
    /\ UNCHANGED <<backend, decision, intake>>
    /\ Idle
    /\ inbox # <<>>
    /\ inbox' = Tail(inbox)
    /\ last' = NoStep
    /\ UNCHANGED <<positions, tasks, broker, closed, applied, failed>>

ExecuteUntracked ==
    /\ UNCHANGED <<backend, decision, intake>>
    /\ Idle
    /\ inbox # <<>>
    /\ ~(Len(Head(inbox).take_profits) > 1)
    /\ LET order == Head(inbox)
           position_id == Cardinality(DOMAIN broker) + 1
       IN  broker' = Put(broker, position_id, order.volume)
    /\ inbox' = Tail(inbox)
    /\ last' = NoStep
    /\ UNCHANGED <<positions, tasks, closed, applied, failed>>

ExecuteTracked ==
    /\ UNCHANGED <<backend, decision, intake>>
    /\ Idle
    /\ inbox # <<>>
    /\ Len(Head(inbox).take_profits) > 1
    /\ \E actual_entry \in Prices :
        \E position_id \in result_position_id(backend, Cardinality(DOMAIN broker) + 1) :
         LET order == Head(inbox)
         IN  /\ broker' = Put(broker, Cardinality(DOMAIN broker) + 1, order.volume)
             /\ positions' = add_position(positions, position_id, order, actual_entry)
             /\ applied' = Put(applied, position_id, NoLevels)
             /\ failed' = Put(failed, position_id, [close |-> {}, sl |-> FALSE])
             /\ tasks' = Append(tasks, [position_id |-> position_id, pc |-> "start",
                                        actions |-> <<>>])
    /\ inbox' = Tail(inbox)
    /\ last' = NoStep
    /\ UNCHANGED closed

\* monitor_position, lines 250-254: the task's first run.
MonitorStart(t) ==
    /\ UNCHANGED <<backend, decision, intake>>
    /\ Idle
    /\ tasks[t].pc = "start"
    /\ tasks' = [tasks EXCEPT ![t].pc =
                    IF get_position(positions, tasks[t].position_id) = {}
                    THEN "done" ELSE "sleep"]
    /\ last' = NoStep
    /\ UNCHANGED <<inbox, positions, broker, closed, applied, failed>>

\* monitor_position, lines 258-264: the poll finds the position gone.
MonitorExit(t) ==
    /\ UNCHANGED <<backend, decision, intake>>
    /\ Idle
    /\ tasks[t].pc = "sleep"
    /\ get_position(positions, tasks[t].position_id) = {}
    /\ tasks' = [tasks EXCEPT ![t].pc = "done"]
    /\ last' = [NoStep EXCEPT !.kind = "exit", !.task = t,
                              !.position_id = tasks[t].position_id]
    /\ UNCHANGED <<inbox, positions, broker, closed, applied, failed>>

\* monitor_position, lines 266-269: no price this time.
MonitorNoPrice(t) ==
    /\ UNCHANGED <<backend, decision, intake>>
    /\ Idle
    /\ tasks[t].pc = "sleep"
    /\ get_position(positions, tasks[t].position_id) # {}
    /\ last' = NoStep
    /\ UNCHANGED <<inbox, positions, tasks, broker, closed, applied, failed>>

\* monitor_position, lines 258-272: wake up, read the price, check the levels.
MonitorPoll(t) ==
    /\ UNCHANGED <<backend, decision, intake>>
    /\ Idle
    /\ tasks[t].pc = "sleep"
    /\ get_position(positions, tasks[t].position_id) # {}
    /\ \E current_price \in PollPrices :
         LET actions == check_tp_hits(positions, tasks[t].position_id, current_price)
         IN  /\ tasks' = [tasks EXCEPT ![t].actions = actions,
                                       ![t].pc = IF actions = <<>> THEN "sleep" ELSE "exec"]
             /\ last' = [NoStep EXCEPT !.kind = "poll", !.task = t,
                                       !.position_id = tasks[t].position_id,
                                       !.price = current_price]
    /\ UNCHANGED <<inbox, positions, broker, closed, applied, failed>>

\* Variant: the update is applied whatever the close call returned.
after_close_ignoring_result(poss, position_id, action, success) ==
    update_after_partial_close(poss, position_id, action.tp_level,
                               action.volume_to_close, action.new_sl)

\* monitor_position, lines 285-312: the tracking table after the close call
\* of one action returned success or failure.
after_close(poss, position_id, action, success) ==
    IF success
    THEN update_after_partial_close(poss, position_id, action.tp_level,
                                    action.volume_to_close, action.new_sl)
    ELSE poss

\* monitor_position, lines 274-312: one turn of the loop over the actions.
MonitorAction(t) ==
    /\ UNCHANGED <<backend, decision, intake>>
    /\ tasks[t].pc = "exec"
    /\ LET position_id == tasks[t].position_id
           action == Head(tasks[t].actions)
           rest == Tail(tasks[t].actions)
           sold == [broker EXCEPT ![position_id] = @ - action.volume_to_close]
           tracked == position_id \in DOMAIN positions
       IN  /\ \E success \in service_close_position_partial(backend, broker,
                                       position_id, action.volume_to_close) :
               \E sl_success \in (IF success /\ action.new_sl # None
                                  THEN service_modify_position_sl(backend, sold,
                                                                  position_id)
                                  ELSE {FALSE}) :
                 /\ broker' = IF success THEN sold ELSE broker
                 /\ positions' = after_close(positions, position_id, action, success)
                 /\ closed' =
                       IF tracked /\ position_id \notin DOMAIN positions'
                       THEN Put(closed, position_id,
                                updated_position(positions[position_id],
                                    action.tp_level, action.volume_to_close,
                                    action.new_sl))
                       ELSE closed
                 /\ applied' =
                       IF tracked /\ success
                       THEN [applied EXCEPT ![position_id][action.tp_level] =
                                @ + action.volume_to_close]
                       ELSE applied
                 /\ failed' =
                       IF ~tracked THEN failed
                       ELSE IF ~success
                       THEN [failed EXCEPT ![position_id].close = @ \cup {action.tp_level}]
                       ELSE IF action.new_sl # None /\ ~sl_success
                       THEN [failed EXCEPT ![position_id].sl = TRUE]
                       ELSE failed
                 /\ last' = [NoStep EXCEPT
                                !.kind = "action", !.task = t,
                                !.position_id = position_id,
                                !.tp_level = action.tp_level,
                                !.volume = action.volume_to_close,
                                !.new_sl = action.new_sl,
                                !.success = success,
                                !.sl_called = (success /\ action.new_sl # None),
                                !.sl_success = sl_success]
           /\ tasks' = [tasks EXCEPT ![t].actions = rest,
                                     ![t].pc = IF rest = <<>> THEN "sleep" ELSE "exec"]
    /\ UNCHANGED inbox

Next ==
    \/ ExecuteRejected
    \/ ExecuteUntracked
    \/ ExecuteTracked
    \/ \E t \in 1..Len(tasks) : MonitorStart(t)
    \/ \E t \in 1..Len(tasks) : MonitorExit(t)
    \/ \E t \in 1..Len(tasks) : MonitorNoPrice(t)
    \/ \E t \in 1..Len(tasks) : MonitorPoll(t)
    \/ \E t \in 1..Len(tasks) : MonitorAction(t)

Spec == Init /\ [][Next]_vars

\* Two signals in a row, on either backend.  The orders are a few that are
\* tracked and one that is not.
PairOrders == {o \in Orders : /\ o.side = BUY
                              /\ o.volume = 10
                              /\ o.stop_loss = None
                              /\ o.take_profits \in {<<>>, <<1, 1>>, <<1, 2, 2>>}}

InitTwo ==
    /\ inbox \in {<<a, b>> : a \in PairOrders, b \in PairOrders}
    /\ positions = <<>>
    /\ tasks = <<>>
    /\ broker = <<>>
    /\ closed = <<>>
    /\ applied = <<>>
    /\ failed = <<>>
    /\ last = NoStep
    /\ backend \in {"mt5", "ctrader"}
    /\ DecisionAtRest
    /\ IntakeAtRest

SpecTwo == InitTwo /\ [][Next]_vars

TypeOK ==
    /\ \A p \in DOMAIN positions : positions[p].tp_hit_count \in 0..NumTPLabels
    /\ DOMAIN positions \subseteq DOMAIN broker

\* ------------------------------------------------------------ properties
Abs(x) == IF x < 0 THEN -x ELSE x

RECURSIVE SumLevels(_, _)
SumLevels(f, n) == IF n < 0 THEN 0 ELSE f[n] + SumLevels(f, n - 1)

Levels(pos) == 0..(Len(pos.take_profits) - 1)

ActionLevels(actions) == {actions[i].tp_level : i \in 1..Len(actions)}

\* The ManagedPosition object of a position that is or was tracked.
PosOf(p) == IF p \in DOMAIN positions THEN positions[p] ELSE closed[p]

\* C1: a partial close at a take-profit index >= 2 that succeeds closes all
\* that remains: afterwards the position is no longer tracked and its
\* remaining_volume is 0 within the tolerance.
C1_UpperLevelClosesAll ==
    (last.kind = "action" /\ last.success /\ last.tp_level >= 2)
        => /\ last.position_id \notin DOMAIN positions
           /\ last.position_id \in DOMAIN closed
           /\ Abs(PosOf(last.position_id).remaining_volume) <= Tolerance

\* C2: a level whose close call failed and never succeeded is not counted
\* as hit, and every poll whose price satisfies its hit condition emits it
\* again.
C2_FailedLevelRetried ==
    /\ \A p \in DOMAIN positions : \A k \in failed[p].close :
           applied[p][k] = 0 => ~(k < positions[p].tp_hit_count)
    /\ (last.kind = "poll" /\ last.position_id \in DOMAIN positions) =>
           LET pos == positions[last.position_id]
           IN  \A k \in failed[last.position_id].close :
                   (/\ applied[last.position_id][k] = 0
                    /\ is_hit(pos, last.price, pos.take_profits[k + 1]))
                   => k \in ActionLevels(tasks[last.task].actions)

\* C3: when the stop-loss modification of a hit level fails, the stored
\* stop_loss of the position keeps its previous value.
C3_FailedStopNotStored ==
    [][(/\ last'.kind = "action" /\ last'.sl_called /\ ~last'.sl_success
        /\ last'.position_id \in DOMAIN positions
        /\ last'.position_id \in DOMAIN positions')
       => positions'[last'.position_id].stop_loss
              = positions[last'.position_id].stop_loss]_vars

\* C4: a tracked position whose take-profit levels have all been reached
\* and closed, with no backend call ever failing, is fully closed and removed
\* from tracking (from such a state no further action is ever emitted, so a
\* position still tracked there stays tracked for ever).
C4_AllLevelsClosedIsRemoved ==
    \A p \in DOMAIN applied :
        (/\ failed[p].close = {} /\ ~failed[p].sl
         /\ \A k \in Levels(PosOf(p)) : applied[p][k] > 0)
        => p \notin DOMAIN positions

\* C5: a partial-close call that reports failure leaves the position as it
\* was: same remaining_volume, tp_hit_count and stop_loss, still tracked.
C5_FailedCloseLeavesState ==
    [][(/\ last'.kind = "action" /\ ~last'.success
        /\ last'.position_id \in DOMAIN positions)
       => /\ last'.position_id \in DOMAIN positions'
          /\ positions'[last'.position_id] = positions[last'.position_id]
          /\ closed' = closed]_vars

C5_Witness ==
    /\ last.kind = "action" /\ ~last.success
    /\ last.position_id \in DOMAIN positions
    /\ positions[last.position_id].tp_hit_count > 0

\* C6: once the closes at take-profit index 0 and index 1 have both
\* succeeded and no higher level has, remaining_volume is 30% of the
\* original volume within the tolerance.
C6_ThirtyPercentRemains ==
    \A p \in DOMAIN applied :
        (applied[p][0] > 0 /\ applied[p][1] > 0
            /\ applied[p][2] = 0 /\ applied[p][3] = 0)
        => /\ p \in DOMAIN positions
           /\ Abs(100 * positions[p].remaining_volume
                  - 30 * positions[p].initial_volume) <= 100 * Tolerance

C6_Witness ==
    \E p \in DOMAIN positions :
        /\ applied[p][0] > 0 /\ applied[p][1] > 0
        /\ applied[p][2] = 0 /\ applied[p][3] = 0
        /\ last.kind = "action" /\ last.success /\ last.position_id = p

\* C7: after the hit at index 0 is applied the stored stop_loss is the
\* entry price; after the hit at index 1 it is the price of index 0; a hit
\* at index >= 2 leaves the stored stop_loss as it was.
C7_StopLossRatchet ==
    [][(/\ last'.kind = "action" /\ last'.success
        /\ last'.position_id \in DOMAIN positions)
       => LET before == positions[last'.position_id]
              after  == IF last'.position_id \in DOMAIN positions'
                        THEN positions'[last'.position_id]
                        ELSE closed'[last'.position_id]
          IN  /\ last'.tp_level = 0 => after.stop_loss = before.entry_price
              /\ last'.tp_level = 1 => after.stop_loss = before.take_profits[1]
              /\ last'.tp_level >= 2 => /\ last'.new_sl = None
                                        /\ after.stop_loss = before.stop_loss]_vars

C7_Witness ==
    /\ last.kind = "action" /\ last.success /\ last.tp_level = 1
    /\ last.position_id \in DOMAIN positions
    /\ positions[last.position_id].stop_loss
           = positions[last.position_id].take_profits[1]
    /\ positions[last.position_id].stop_loss
           # positions[last.position_id].entry_price
    /\ positions[last.position_id].stop_loss
           # positions[last.position_id].take_profits[2]

\* C8: a poll emits exactly one action for each level that is not yet
\* counted as hit and whose hit condition the price satisfies, and the
\* actions are executed and applied in ascending index order.
C8_OneActionPerLevelAscending ==
    /\ (last.kind = "poll" /\ last.position_id \in DOMAIN positions) =>
           LET pos == positions[last.position_id]
               actions == tasks[last.task].actions
               due == {k \in Levels(pos) :
                          /\ k >= pos.tp_hit_count
                          /\ is_hit(pos, last.price, pos.take_profits[k + 1])}
           IN  /\ ActionLevels(actions) = due
               /\ Len(actions) = Cardinality(due)
    /\ \A t \in 1..Len(tasks) :
           \A i, j \in 1..Len(tasks[t].actions) :
               i < j => tasks[t].actions[i].tp_level < tasks[t].actions[j].tp_level
    /\ last.kind = "action" =>
           \A i \in 1..Len(tasks[last.task].actions) :
               last.tp_level < tasks[last.task].actions[i].tp_level

C8_Witness ==
    /\ last.kind = "action" /\ last.success
    /\ Len(tasks[last.task].actions) >= 2
    /\ last.position_id \in DOMAIN positions
    /\ positions[last.position_id].tp_hit_count = 1

\* C9: remaining_volume of a position is its initial_volume minus the sum
\* of the volumes of the partial closes applied to it, one per hit level.
C9_RemainingIsInitialMinusClosed ==
    \A p \in DOMAIN applied :
        /\ PosOf(p).remaining_volume
               = PosOf(p).initial_volume - SumLevels(applied[p], NumTPLabels - 1)
        /\ \A k \in 0..(NumTPLabels - 1) :
               applied[p][k] > 0 => k < PosOf(p).tp_hit_count

C9_Witness ==
    \E p \in DOMAIN positions :
        /\ applied[p][1] > 0 /\ applied[p][2] > 0
        /\ positions[p].remaining_volume < positions[p].initial_volume

\* C10: a position is removed from tracking exactly when its
\* remaining_volume is within the tolerance of 0: no tracked position has
\* so little left, and no removed position had more.
C10_RemovedExactlyWhenClosed ==
    /\ \A p \in DOMAIN positions : positions[p].remaining_volume > Tolerance
    /\ \A p \in DOMAIN closed : closed[p].remaining_volume <= Tolerance
    /\ \A p \in DOMAIN applied : p \in DOMAIN positions \/ p \in DOMAIN closed

C10_Witness ==
    /\ last.kind = "action" /\ last.success
    /\ last.position_id \in DOMAIN closed
    /\ last.position_id \notin DOMAIN positions
\* ------------------------------------------------------ the order decision
\* Signal prices are counted in units of 0.00005, and only even ones are
\* drawn, so that the midpoint of a range is a whole number of units.
\* float() of a Decimal price is the double nearest to it; the code compares
\* these doubles with doubles only, so a double is written as the number it
\* is nearest to.
PipSize     == 200
Epsilon     == 2
ValuePerPip == 10
LotStep     == 10

MARKET == "market"
LIMIT  == "limit"

SigPrices == {2 * k : k \in 0..MaxSig}

\* SignalParser._extract_range gives (min, max) of the two numbers.
Ranges == {<<>>} \cup {r \in SigPrices \X SigPrices : r[1] <= r[2]}

\* SignalParser._extract_take_profits gives one entry per label TP1..TP4,
\* None where the label is missing or reads "open".
TakeProfitLists == [1..NumTPLabels -> {None, 2, 2 * MaxSig}]

\* SignalParser._determine_side: a sell range makes it a sell, else a buy
\* range makes it a buy, else the first Buy or Sell word decides, if any.
determine_side(buy_range, sell_range) ==
    IF sell_range # <<>> THEN {SELL}
    ELSE IF buy_range # <<>> THEN {BUY}
    ELSE {BUY, SELL, NoSide}

\* The Signals SignalParser.parse can give.
Signals == {sig \in [symbol : {"XAUUSD", NoSymbol}, side : {BUY, SELL, NoSide},
                     market_price : {None} \cup SigPrices,
                     buy_range : Ranges, sell_range : Ranges,
                     take_profits : TakeProfitLists,
                     stop_loss : {None} \cup SigPrices] :
               sig.side \in determine_side(sig.buy_range, sig.sell_range)}

\* Python's truth value of an optional number: None and 0 are false.
truthy(x) == x # None /\ x # 0

to_float(d) == d

\* Variant: a market price of 0 does not count as a market price.
is_valid_by_truth(sig) ==
    /\ sig.symbol # NoSymbol
    /\ sig.side # NoSide
    /\ (truthy(sig.market_price) \/ sig.buy_range # <<>> \/ sig.sell_range # <<>>)

is_valid(sig) ==
    /\ sig.symbol # NoSymbol
    /\ sig.side # NoSide
    /\ (sig.market_price # None \/ sig.buy_range # <<>> \/ sig.sell_range # <<>>)

get_entry_price(sig) ==
    IF truthy(sig.market_price) THEN sig.market_price
    ELSE IF sig.side = BUY /\ sig.buy_range # <<>>
         THEN (sig.buy_range[1] + sig.buy_range[2]) \div 2
    ELSE IF sig.side = SELL /\ sig.sell_range # <<>>
         THEN (sig.sell_range[1] + sig.sell_range[2]) \div 2
    ELSE None

\* The range of the signal's side (order_service.py 103-108).
trade_range(sig) ==
    IF sig.side = BUY THEN sig.buy_range
    ELSE IF sig.side = SELL THEN sig.sell_range
    ELSE <<>>

\* Variant: a limit order is placed at the low end of the range.
determine_at_low_end(sig) ==
    IF trade_range(sig) # <<>>
    THEN LET low  == trade_range(sig)[1]
             high == trade_range(sig)[2]
         IN  IF truthy(sig.market_price)
                /\ low <= sig.market_price /\ sig.market_price <= high
             THEN [order_type |-> MARKET, price |-> sig.market_price]
             ELSE [order_type |-> LIMIT, price |-> low]
    ELSE IF truthy(sig.market_price)
         THEN [order_type |-> MARKET, price |-> sig.market_price]
    ELSE IF truthy(get_entry_price(sig))
         THEN [order_type |-> LIMIT, price |-> get_entry_price(sig)]
    ELSE [order_type |-> MARKET, price |-> None]

\* OrderService._determine_order_type_and_price.
determine_order_type_and_price(sig) ==
    IF trade_range(sig) # <<>>
    THEN LET low  == trade_range(sig)[1]
             high == trade_range(sig)[2]
         IN  IF truthy(sig.market_price)
                /\ low <= sig.market_price /\ sig.market_price <= high
             THEN [order_type |-> MARKET, price |-> sig.market_price]
             ELSE [order_type |-> LIMIT, price |-> (low + high) \div 2]
    ELSE IF truthy(sig.market_price)
         THEN [order_type |-> MARKET, price |-> sig.market_price]
    ELSE IF truthy(get_entry_price(sig))
         THEN [order_type |-> LIMIT, price |-> get_entry_price(sig)]
    ELSE [order_type |-> MARKET, price |-> None]

\* ------------------------------------------------------------ RiskManager
\* A volume before rounding is the fraction num / den of a thousandth of a
\* lot.  round(x, 2) of a volume in lots is the nearest multiple of LotStep,
\* a tie going to the even multiple; no volume drawn here is a tie.
round_to_lot_step(num, den) ==
    LET whole == num \div (LotStep * den)
        rest  == num % (LotStep * den)
        up    == \/ 2 * rest > LotStep * den
                 \/ (2 * rest = LotStep * den /\ whole % 2 = 1)
    IN  LotStep * (IF up THEN whole + 1 ELSE whole)

\* max(min_volume, min(max_volume, position_size)), as a fraction.
clamp_volume(rm, num, den) ==
    LET inner == IF rm.max_volume * den < num
                 THEN [num |-> rm.max_volume, den |-> 1]
                 ELSE [num |-> num, den |-> den]
    IN  IF rm.min_volume * inner.den > inner.num
        THEN [num |-> rm.min_volume, den |-> 1]
        ELSE inner

\* risk_manager.py 86-89: clamp, then round to two decimals.
sized_volume(rm, num, den) ==
    LET clamped == clamp_volume(rm, num, den)
    IN  round_to_lot_step(clamped.num, clamped.den)

Distance(a, b) == IF a >= b THEN a - b ELSE b - a

\* Variant: no guard against a stop-loss too close to the entry.
calculate_position_size_unguarded(rm, entry_price, stop_loss, pip_value) ==
    IF ~truthy(entry_price) \/ ~truthy(stop_loss) \/ entry_price = stop_loss
    THEN rm.default_volume
    ELSE LET sl_distance == Distance(entry_price, stop_loss)
         IN  sized_volume(rm, rm.account_balance * rm.risk_percent * pip_value * 10,
                          sl_distance * ValuePerPip)

\* RiskManager.calculate_position_size, in thousandths of a lot:
\* risk_amount / (pip_distance * value_per_pip) lots is
\* balance * risk_percent * pip_value * 10 / (sl_distance * value_per_pip).
calculate_position_size(rm, entry_price, stop_loss, pip_value) ==
    IF ~truthy(entry_price) \/ ~truthy(stop_loss) \/ entry_price = stop_loss
    THEN rm.default_volume
    ELSE LET sl_distance == Distance(entry_price, stop_loss)
         IN  IF sl_distance < Epsilon
             THEN rm.default_volume
             ELSE sized_volume(rm, rm.account_balance * rm.risk_percent * pip_value * 10,
                               sl_distance * ValuePerPip)

\* Variant: the upper limit is not looked at.
validate_order_no_maximum(rm, order) ==
    IF order.volume < rm.min_volume
    THEN [is_valid |-> FALSE, error |-> "minimum"]
    ELSE [is_valid |-> TRUE, error |-> "none"]

\* RiskManager.validate_order: only the volume limits reject, with a
\* message that names the limit; a missing or far stop-loss is logged only.
validate_order(rm, order) ==
    IF order.volume < rm.min_volume
    THEN [is_valid |-> FALSE, error |-> "minimum"]
    ELSE IF order.volume > rm.max_volume
    THEN [is_valid |-> FALSE, error |-> "maximum"]
    ELSE [is_valid |-> TRUE, error |-> "none"]

update_account_balance(rm, new_balance) ==
    [rm EXCEPT !.account_balance = new_balance]

\* ----------------------------------------------------------- OrderService
\* Variant: only the first take-profit price is kept.
order_take_profits_first_only(sig) ==
    LET all == SelectSeq(sig.take_profits, LAMBDA tp : tp # None)
    IN  IF all = <<>> THEN <<>> ELSE <<to_float(Head(all))>>

\* order_service.py 57-59: the prices of the signal that are not None.
order_take_profits(sig) ==
    LET all == SelectSeq(sig.take_profits, LAMBDA tp : tp # None)
    IN  [i \in 1..Len(all) |-> to_float(all[i])]

NoOrder == [side |-> NoSide, order_type |-> "none", volume |-> 0, price |-> None,
            stop_loss |-> None, take_profits |-> <<>>]

\* What a call of create_order_from_signal gives: an Order, None, or an
\* exception.  decided is what _determine_order_type_and_price returned
\* in that call, if it was called.
NoDecision == [kind |-> "none", order |-> NoOrder,
               decided |-> [order_type |-> "none", price |-> None]]

\* Variant: the order is returned without asking the RiskManager.
create_order_unvalidated(sig, rm) ==
    IF ~is_valid(sig) THEN NoDecision
    ELSE LET decided == determine_order_type_and_price(sig)
             entry_price_float == IF truthy(decided.price)
                                  THEN to_float(decided.price) ELSE None
             stop_loss_float == IF truthy(sig.stop_loss)
                                THEN to_float(sig.stop_loss) ELSE None
             order == [side         |-> sig.side,
                       order_type   |-> decided.order_type,
                       volume       |-> calculate_position_size(rm,
                                            entry_price_float, stop_loss_float, PipSize),
                       price        |-> entry_price_float,
                       stop_loss    |-> stop_loss_float,
                       take_profits |-> order_take_profits(sig)]
         IN  IF order.price = None
             THEN [kind |-> "error", order |-> NoOrder, decided |-> decided]
             ELSE [kind |-> "order", order |-> order, decided |-> decided]

\* OrderService.create_order_from_signal.  The log line before the return
\* formats order.price with :.2f, which raises TypeError on None.
create_order_from_signal(sig, rm) ==
    IF ~is_valid(sig) THEN NoDecision
    ELSE LET decided == determine_order_type_and_price(sig)
             entry_price_float == IF truthy(decided.price)
                                  THEN to_float(decided.price) ELSE None
             stop_loss_float == IF truthy(sig.stop_loss)
                                THEN to_float(sig.stop_loss) ELSE None
             order == [side         |-> sig.side,
                       order_type   |-> decided.order_type,
                       volume       |-> calculate_position_size(rm,
                                            entry_price_float, stop_loss_float, PipSize),
                       price        |-> entry_price_float,
                       stop_loss    |-> stop_loss_float,
                       take_profits |-> order_take_profits(sig)]
         IN  IF ~validate_order(rm, order).is_valid
             THEN [NoDecision EXCEPT !.decided = decided]
             ELSE IF order.price = None
             THEN [kind |-> "error", order |-> NoOrder, decided |-> decided]
             ELSE [kind |-> "order", order |-> order, decided |-> decided]

\* ------------------------------------------- the decision, call by call
\* handle_signal_message, line 188: the order of a signal is decided.
Decide ==
    /\ decisions = <<>>
    /\ decisions' = <<create_order_from_signal(signal, risk)>>
    /\ UNCHANGED <<lifecycle, intake, signal, risk, sizing>>

\* The same signal is decided once more.
DecideAgain ==
    /\ decisions # <<>>
    /\ Len(decisions) < MaxCalls
    /\ decisions' = Append(decisions, create_order_from_signal(signal, risk))
    /\ UNCHANGED <<lifecycle, intake, signal, risk, sizing>>

Balances == 0..MaxBalance

\* handle_signal_message, lines 231-234: after an execution the balance of
\* the account, whatever it is now, is given to the RiskManager.
UpdateBalance ==
    /\ decisions # <<>>
    /\ Len(decisions) < MaxCalls
    /\ \E new_balance \in Balances :
         risk' = update_account_balance(risk, new_balance)
    /\ UNCHANGED <<lifecycle, intake, signal, decisions, sizing>>

InitDecide ==
    /\ LifecycleAtRest
    /\ signal \in Signals
    /\ risk = DefaultRisk
    /\ decisions = <<>>
    /\ sizing = NoSizing
    /\ IntakeAtRest

SpecDecide == InitDecide /\ [][Decide]_vars

\* Signals with a buy range at most and one take-profit label at most.
AgainSignals == {sig \in Signals : /\ sig.sell_range = <<>>
                                   /\ \A i \in 2..NumTPLabels : sig.take_profits[i] = None}

InitAgain ==
    /\ LifecycleAtRest
    /\ signal \in AgainSignals
    /\ risk \in {update_account_balance(DefaultRisk, b) : b \in Balances}
    /\ decisions = <<>>
    /\ sizing = NoSizing
    /\ IntakeAtRest

NextAgain == Decide \/ UpdateBalance \/ DecideAgain

SpecAgain == InitAgain /\ [][NextAgain]_vars

\* ------------------------------------------------------ one sizing call
\* Limits as the environment may configure them, some off the lot step.
RiskConfigs == [account_balance : Balances, risk_percent : {1, 2},
                min_volume : {10, 14}, max_volume : {100, 126},
                default_volume : {10, 50}]

SizePrices == {None} \cup (0..MaxSizePrice)

Size ==
    /\ sizing.result = None
    /\ sizing' = [sizing EXCEPT !.result =
                     calculate_position_size(risk, sizing.entry_price,
                                             sizing.stop_loss, PipSize)]
    /\ UNCHANGED <<lifecycle, intake, signal, risk, decisions>>

InitSize ==
    /\ LifecycleAtRest
    /\ signal = NoSignal
    /\ decisions = <<>>
    /\ risk \in RiskConfigs
    /\ sizing \in [entry_price : SizePrices, stop_loss : SizePrices, result : {None}]
    /\ IntakeAtRest

SpecSize == InitSize /\ [][Size]_vars

\* -------------------------------------------------- one validation call
\* Volume limits on the lot step, and orders around them; prices half a
\* pip apart.
LimitConfigs == {[DefaultRisk EXCEPT !.min_volume = lo, !.max_volume = hi] :
                    lo \in {LotStep, 2 * LotStep}, hi \in {2 * LotStep, 3 * LotStep}}

ValidatePrices == {None} \cup {(PipSize \div 2) * k : k \in 0..MaxHalfPips}

Validate ==
    /\ ~validation.done
    /\ LET returned == validate_order(risk, validation)
       IN  validation' = [validation EXCEPT !.done = TRUE,
                                            !.is_valid = returned.is_valid,
                                            !.error = returned.error]
    /\ UNCHANGED <<lifecycle, decision, messages, dry_run, available,
                   initialized, handled, text>>

InitValidate ==
    /\ LifecycleAtRest
    /\ signal = NoSignal
    /\ decisions = <<>>
    /\ sizing = NoSizing
    /\ risk \in LimitConfigs
    /\ validation \in [volume : {LotStep * k : k \in 0..MaxSteps},
                        price : ValidatePrices, stop_loss : ValidatePrices,
                        done : {FALSE}, is_valid : {FALSE}, error : {"none"}]
    /\ messages = <<>>
    /\ dry_run = FALSE
    /\ available = TRUE
    /\ initialized = TRUE
    /\ handled = <<>>
    /\ text = <<>>

SpecValidate == InitValidate /\ [][Validate]_vars

\* ------------------------------------------------------------ SignalParser
\* A message is the sequence of the phrases in it that one of the parser's
\* patterns can match, in the order of the text: a symbol word, a Buy or
\* Sell word (or any other word), a range "Buy now: a - b" or
\* "Sell now: a - b", "Market price: a", "TP<a>: b" with b a number or
\* open, and "SL: a".  Open is written None.
Phrase(kind, name, a, b) == [kind |-> kind, name |-> name, a |-> a, b |-> b]

Phrases ==
    {Phrase("symbol", n, 0, 0) : n \in {"XAUUSD", "GOLD"}}
    \cup {Phrase("word", n, 0, 0) : n \in {BUY, SELL, "other"}}
    \cup {Phrase("range", BUY, 2 * MaxSig, 2), Phrase("range", SELL, 2, 2 * MaxSig)}
    \cup {Phrase("market_price", "", a, 0) : a \in {0, 2}}
    \cup {Phrase("tp", "", i, b) : i \in 1..NumTPLabels, b \in {None, 2 * MaxSig}}
    \cup {Phrase("sl", "", 2, 0)}

Texts == UNION {[1..n -> Phrases] : n \in 0..MaxTokens}

\* re.search: the first phrase of the text that the pattern matches.
Matches(txt, hit(_)) == {i \in 1..Len(txt) : hit(txt[i])}
First(txt, hit(_)) ==
    txt[CHOOSE i \in Matches(txt, hit) : \A j \in Matches(txt, hit) : i <= j]

IsSymbol(ph)      == ph.kind = "symbol"
IsMarketPrice(ph) == ph.kind = "market_price"
IsBuyRange(ph)    == ph.kind = "range" /\ ph.name = BUY
IsSellRange(ph)   == ph.kind = "range" /\ ph.name = SELL
IsStopLoss(ph)    == ph.kind = "sl"
\* The words Buy and Sell also stand at the head of a range.
IsSideWord(ph)    == ph.kind \in {"word", "range"} /\ ph.name \in {BUY, SELL}

Min(a, b) == IF a <= b THEN a ELSE b

extract_symbol(txt) ==
    IF Matches(txt, IsSymbol) = {} THEN NoSymbol
    ELSE LET symbol == First(txt, IsSymbol).name
         IN  IF symbol = "GOLD" THEN "XAUUSD" ELSE symbol

extract_market_price(txt) ==
    IF Matches(txt, IsMarketPrice) = {} THEN None
    ELSE First(txt, IsMarketPrice).a

extract_buy_range(txt) ==
    IF Matches(txt, IsBuyRange) = {} THEN <<>>
    ELSE LET m == First(txt, IsBuyRange) IN <<Min(m.a, m.b), Max(m.a, m.b)>>

extract_sell_range(txt) ==
    IF Matches(txt, IsSellRange) = {} THEN <<>>
    ELSE LET m == First(txt, IsSellRange) IN <<Min(m.a, m.b), Max(m.a, m.b)>>

\* One entry per label TP1..TP4: the number, or None for open, and None
\* again when the label is not in the text.
extract_take_profits(txt) ==
    [i \in 1..NumTPLabels |->
        LET IsLevel(ph) == ph.kind = "tp" /\ ph.a = i
        IN  IF Matches(txt, IsLevel) = {} THEN None
            ELSE First(txt, IsLevel).b]

extract_stop_loss(txt) ==
    IF Matches(txt, IsStopLoss) = {} THEN None
    ELSE First(txt, IsStopLoss).a

\* Variant: a Buy or Sell word decides before the ranges do.
determine_side_word_first(txt, buy_range, sell_range) ==
    IF Matches(txt, IsSideWord) # {} THEN First(txt, IsSideWord).name
    ELSE IF sell_range # <<>> THEN SELL
    ELSE IF buy_range # <<>> THEN BUY
    ELSE NoSide

\* SignalParser._determine_side on the text and the ranges extracted.
determine_side_in(txt, buy_range, sell_range) ==
    IF sell_range # <<>> THEN SELL
    ELSE IF buy_range # <<>> THEN BUY
    ELSE IF Matches(txt, IsSideWord) # {} THEN First(txt, IsSideWord).name
    ELSE NoSide

parse(txt) ==
    [symbol       |-> extract_symbol(txt),
     market_price |-> extract_market_price(txt),
     buy_range    |-> extract_buy_range(txt),
     sell_range   |-> extract_sell_range(txt),
     take_profits |-> extract_take_profits(txt),
     stop_loss    |-> extract_stop_loss(txt),
     side         |-> determine_side_in(txt, extract_buy_range(txt),
                                        extract_sell_range(txt))]

\* SignalParser.parse of the message.
Parse ==
    /\ signal = NoSignal
    /\ signal' = parse(text)
    /\ UNCHANGED <<lifecycle, intake, risk, decisions, sizing>>

InitParse ==
    /\ LifecycleAtRest
    /\ DecisionAtRest
    /\ validation = NoValidation
    /\ messages = <<>>
    /\ dry_run = FALSE
    /\ available = TRUE
    /\ initialized = TRUE
    /\ handled = <<>>
    /\ text \in Texts

SpecParse == InitParse /\ [][Parse]_vars

\* C11: the tp_hit_count of a tracked position never decreases and never
\* exceeds the number of its take-profit levels, and a position that was
\* removed as closed is never tracked again nor changed.
C11_HitCountMonotoneClosedFinal ==
    /\ [](\A p \in DOMAIN positions :
             positions[p].tp_hit_count <= Len(positions[p].take_profits))
    /\ [][/\ \A p \in DOMAIN positions :
               p \in DOMAIN positions'
                  => positions'[p].tp_hit_count >= positions[p].tp_hit_count
          /\ \A p \in DOMAIN closed :
               /\ p \notin DOMAIN positions'
               /\ p \in DOMAIN closed'
               /\ closed'[p] = closed[p]]_vars

C11_Witness ==
    /\ Len(tasks) = 2
    /\ \E p \in DOMAIN closed : closed[p].tp_hit_count = Len(closed[p].take_profits)
    /\ \E p \in DOMAIN positions : positions[p].tp_hit_count > 0

\* C12: a monitoring task whose position is no longer tracked stops at its
\* next poll: that poll reads no price and issues no action, it ends the task.
C12_TaskStopsAfterRemoval ==
    /\ [](/\ last.kind = "poll" => last.position_id \in DOMAIN positions
          /\ last.kind = "exit" =>
                /\ tasks[last.task].pc = "done"
                /\ last.position_id \notin DOMAIN positions)
    /\ [][\A t \in 1..Len(tasks) :
            (/\ tasks[t].pc = "sleep"
             /\ tasks[t].position_id \notin DOMAIN positions
             /\ tasks'[t] # tasks[t])
            => tasks'[t].pc = "done" /\ positions' = positions /\ broker' = broker]_vars

C12_Witness ==
    /\ last.kind = "exit"
    /\ last.position_id \in DOMAIN closed
    /\ tasks[last.task].pc = "done"

\* C13: every tracked position has exactly one monitoring task, and adding
\* a position never replaces an entry that is already tracked.
C13_OneTaskPerEntry ==
    /\ [](\A p \in DOMAIN positions :
             Cardinality({t \in 1..Len(tasks) :
                             tasks[t].position_id = p /\ tasks[t].pc # "done"}) = 1)
    /\ [][Len(tasks') > Len(tasks)
            => tasks'[Len(tasks')].position_id \notin DOMAIN positions]_vars

\* The range a signal gives for its own side, <<>> if none.
SideRange(sig) ==
    IF sig.side = BUY THEN sig.buy_range
    ELSE IF sig.side = SELL THEN sig.sell_range ELSE <<>>

\* C14: a valid signal with a market price inside the range of its side,
\* both ends included, is decided as a market order at the market price.
C14_MarketInsideRange ==
    \A i \in 1..Len(decisions) :
        LET r  == SideRange(signal)
            mp == signal.market_price
        IN  (/\ is_valid(signal)
             /\ mp # None
             /\ r # <<>>
             /\ r[1] <= mp /\ mp <= r[2])
            => /\ decisions[i].decided = [order_type |-> MARKET, price |-> mp]
               /\ decisions[i].kind = "order" =>
                     /\ decisions[i].order.order_type = MARKET
                     /\ decisions[i].order.price = mp

\* C15: a valid signal with a range for its side and a market price that is
\* absent or outside the range is decided as a limit order at the midpoint
\* (low + high) / 2 of the range.
C15_LimitAtMidpoint ==
    \A i \in 1..Len(decisions) :
        LET r  == SideRange(signal)
            mp == signal.market_price
        IN  (/\ is_valid(signal)
             /\ r # <<>>
             /\ (mp = None \/ mp < r[1] \/ mp > r[2]))
            => /\ decisions[i].decided.order_type = LIMIT
               /\ 2 * decisions[i].decided.price = r[1] + r[2]
               /\ decisions[i].kind = "order" =>
                     /\ decisions[i].order.order_type = LIMIT
                     /\ 2 * decisions[i].order.price = r[1] + r[2]

C15_Witness ==
    /\ decisions # <<>>
    /\ decisions[1].kind = "order"
    /\ decisions[1].order.order_type = LIMIT
    /\ SideRange(signal) # <<>>
    /\ SideRange(signal)[1] < SideRange(signal)[2]
    /\ signal.market_price # None
    /\ signal.market_price > SideRange(signal)[2]

\* C16: a valid signal with no range for its side and no usable market
\* price is decided as none: the call returns no Order.
C16_NoPriceGivesNone ==
    \A i \in 1..Len(decisions) :
        (/\ is_valid(signal)
         /\ SideRange(signal) = <<>>
         /\ signal.market_price \in {None, 0})
        => decisions[i].kind = "none"

\* C17: two decisions of the same signal are equal, whatever happened
\* between them.
C17_DecisionIdempotent ==
    Len(decisions) >= 2 => decisions[2] = decisions[1]

\* C18 as stated: the Order has the stop-loss of the Signal, and every
\* take-profit price of the Signal at the index it has in the Signal.
C18_LevelsAtSameIndices ==
    \A i \in 1..Len(decisions) :
        decisions[i].kind = "order" =>
            /\ decisions[i].order.stop_loss = signal.stop_loss
            /\ \A k \in 1..Len(signal.take_profits) :
                  signal.take_profits[k] # None =>
                      /\ k <= Len(decisions[i].order.take_profits)
                      /\ decisions[i].order.take_profits[k] = signal.take_profits[k]

\* The number of prices among the first k take-profit entries of a signal.
Rank(sig, k) == Cardinality({j \in 1..k : sig.take_profits[j] # None})

\* C18, amended: the Order has the stop-loss of the Signal unless that is 0,
\* which becomes none; its take-profit list is the prices of the Signal in
\* their order, the entries that are none left out, so that a price moves
\* down by the number of none entries before it.
C18_LevelsCopiedInOrder ==
    \A i \in 1..Len(decisions) :
        decisions[i].kind = "order" =>
            /\ decisions[i].order.stop_loss =
                  (IF signal.stop_loss = 0 THEN None ELSE signal.stop_loss)
            /\ Len(decisions[i].order.take_profits)
                  = Rank(signal, Len(signal.take_profits))
            /\ \A k \in 1..Len(signal.take_profits) :
                  signal.take_profits[k] # None =>
                      decisions[i].order.take_profits[Rank(signal, k)]
                          = signal.take_profits[k]

C18_Witness ==
    /\ decisions # <<>>
    /\ decisions[1].kind = "order"
    /\ signal.take_profits[1] = None
    /\ Len(decisions[1].order.take_profits) >= 2
    /\ decisions[1].order.stop_loss # None

\* C19: for an entry and a stop, both positive prices, whose distance is
\* above epsilon, and limits with min_volume <= max_volume, the sized volume
\* is within the limits.
C19_SizeWithinLimits ==
    (/\ sizing.result # None
     /\ sizing.entry_price # None /\ sizing.entry_price > 0
     /\ sizing.stop_loss # None /\ sizing.stop_loss > 0
     /\ Distance(sizing.entry_price, sizing.stop_loss) > Epsilon
     /\ risk.min_volume <= risk.max_volume)
    => /\ risk.min_volume <= sizing.result
       /\ sizing.result <= risk.max_volume

\* C20: the sized volume is default_volume when the stop or the entry is
\* unset, when they are equal, or when their distance is below epsilon.
C20_DefaultVolumeCases ==
    (/\ sizing.result # None
     /\ \/ sizing.stop_loss = None
        \/ sizing.entry_price = None
        \/ sizing.entry_price = sizing.stop_loss
        \/ Distance(sizing.entry_price, sizing.stop_loss) < Epsilon)
    => sizing.result = risk.default_volume

C20_Witness ==
    /\ sizing.result = risk.default_volume
    /\ sizing.entry_price # None
    /\ sizing.stop_loss # None
    /\ sizing.entry_price # sizing.stop_loss
    /\ sizing.entry_price > 0 /\ sizing.stop_loss > 0
    /\ Distance(sizing.entry_price, sizing.stop_loss) < Epsilon
    /\ risk.default_volume # risk.min_volume
    /\ risk.account_balance > 0

\* The smallest distance between price and stop-loss that the older
\* validate_trade lets pass: 0.01.
MinStopDistance == PipSize

\* C21: an order with a price and a stop-loss closer to each other than the
\* minimum distance is rejected with a reason, also when its volume is
\* within the limits.
C21_TightStopRejected ==
    (/\ validation.done
     /\ validation.price # None /\ validation.price > 0
     /\ validation.stop_loss # None /\ validation.stop_loss > 0
     /\ Distance(validation.price, validation.stop_loss) < MinStopDistance)
    => ~validation.is_valid /\ validation.error # "none"

\* C22: an order with a volume below min_volume is rejected with a reason
\* naming the minimum, one above max_volume with a reason naming the
\* maximum, and an order with a volume within the limits and a stop that is
\* not too tight is accepted with no reason.
C22_VolumeLimitsRejected ==
    validation.done =>
        /\ validation.volume < risk.min_volume
             => ~validation.is_valid /\ validation.error = "minimum"
        /\ (validation.volume > risk.max_volume /\ ~(validation.volume < risk.min_volume))
             => ~validation.is_valid /\ validation.error = "maximum"
        /\ (/\ risk.min_volume <= validation.volume
            /\ validation.volume <= risk.max_volume
            /\ (\/ validation.price = None
                \/ validation.stop_loss = None
                \/ Distance(validation.price, validation.stop_loss) >= MinStopDistance))
             => validation.is_valid /\ validation.error = "none"

C22_Witness ==
    /\ validation.done
    /\ validation.volume > risk.max_volume
    /\ risk.min_volume < risk.max_volume
    /\ validation.error = "maximum"
    /\ validation.price # None

\* The message has been parsed into signal.
Parsed == text # <<>> /\ signal = parse(text) /\ signal # NoSignal

HasPhrase(kind, name) == \E i \in 1..Len(text) : text[i].kind = kind /\ text[i].name = name

\* The Buy or Sell word that comes first in the message, as a set.
FirstSideWord ==
    {text[i].name : i \in {k \in 1..Len(text) :
        /\ text[k].kind \in {"word", "range"} /\ text[k].name \in {BUY, SELL}
        /\ \A j \in 1..(k - 1) :
              ~(text[j].kind \in {"word", "range"} /\ text[j].name \in {BUY, SELL})}}

\* C26: the side of a parsed message is sell if it has a sell range, else
\* buy if it has a buy range, else its first Buy or Sell word, else unset.
C26_SidePriority ==
    Parsed =>
        signal.side = (IF HasPhrase("range", SELL) THEN SELL
                       ELSE IF HasPhrase("range", BUY) THEN BUY
                       ELSE IF FirstSideWord # {} THEN CHOOSE w \in FirstSideWord : TRUE
                       ELSE NoSide)

C26_Witness ==
    /\ Parsed
    /\ Len(text) >= 2
    /\ text[1] = Phrase("word", BUY, 0, 0)
    /\ HasPhrase("range", SELL)
    /\ signal.side = SELL

\* C27: a parsed signal is valid exactly when its symbol and its side are
\* set and one of market_price, buy_range, sell_range is; a message without
\* a symbol word gives a signal without symbol, which is not valid.
C27_ValidIffComplete ==
    Parsed =>
        /\ is_valid(signal) <=>
              (/\ signal.symbol # NoSymbol
               /\ signal.side # NoSide
               /\ (\/ signal.market_price # None
                   \/ signal.buy_range # <<>>
                   \/ signal.sell_range # <<>>))
        /\ (\A i \in 1..Len(text) : text[i].kind # "symbol")
              => signal.symbol = NoSymbol /\ ~is_valid(signal)

C27_Witness ==
    /\ Parsed
    /\ \A i \in 1..Len(text) : text[i].kind # "symbol"
    /\ signal.side # NoSide
    /\ signal.market_price # None
    /\ ~is_valid(signal)

\* C28: in the parsed take-profit list a level written open is a null entry
\* at its index, a level written as a number is that number, and a level
\* whose label is not in the message is absent, which is not a null entry.
C28_OpenIsNotAbsent ==
    Parsed =>
        \A i \in 1..NumTPLabels :
            LET labels == {k \in 1..Len(text) : text[k].kind = "tp" /\ text[k].a = i}
            IN  IF labels = {}
                THEN ~(i \in DOMAIN signal.take_profits /\ signal.take_profits[i] = None)
                ELSE /\ i \in DOMAIN signal.take_profits
                     /\ \E k \in labels : signal.take_profits[i] = text[k].b

\* The volume that remains of a position that is or was tracked.
RemainingOf(p) ==
    IF p \in DOMAIN positions THEN positions[p].remaining_volume
    ELSE IF p \in DOMAIN closed THEN closed[p].remaining_volume
    ELSE 0

\* C29: every partial-close request asks for a volume that is positive and
\* no more than what remains of the position when the request is issued,
\* and remaining_volume is never negative.
C29_CloseWithinRemaining ==
    /\ [](\A p \in DOMAIN positions : positions[p].remaining_volume >= 0)
    /\ [][\A t \in 1..Len(tasks) :
            (tasks[t].pc = "exec" /\ tasks'[t] # tasks[t])
            => /\ Head(tasks[t].actions).volume_to_close > 0
               /\ Head(tasks[t].actions).volume_to_close
                     <= RemainingOf(tasks[t].position_id)]_vars

\* C30: once a position has been removed from tracking as closed, no close
\* and no stop-loss call is issued for its id any more, not even for an
\* action computed before the removal in the same polling cycle.
C30_NoCallAfterRemoval ==
    [][\A t \in 1..Len(tasks) :
        ~(/\ tasks[t].pc = "exec"
          /\ tasks'[t] # tasks[t]
          /\ tasks[t].position_id \in DOMAIN closed)]_vars

\* ------------------------------------------------- the message pipeline
\* The signals of the inbound messages: one without a symbol, one whose
\* only price is a market price of 0, and complete ones with one or two
\* take-profit prices, with and without a stop-loss.
BaseSignal == [symbol |-> "XAUUSD", side |-> BUY, market_price |-> 2,
               buy_range |-> <<>>, sell_range |-> <<>>,
               take_profits |-> <<2, None, None, None>>, stop_loss |-> None]

PipeSignals ==
    { [BaseSignal EXCEPT !.symbol = NoSymbol],
      [BaseSignal EXCEPT !.market_price = 0],
      BaseSignal,
      [BaseSignal EXCEPT !.take_profits = <<2, 2 * MaxSig, None, None>>],
      [BaseSignal EXCEPT !.take_profits = <<2, 2 * MaxSig, None, None>>,
                         !.stop_loss = 2 * MaxSig] }

\* The RiskManager of the default configuration, and one of a configuration
\* whose smallest volume is above its default volume.
PipeRisks == {DefaultRisk, [DefaultRisk EXCEPT !.min_volume = 2 * LotStep]}

\* OrderService.should_execute_order.
\* Variant: every order is to be executed.
should_execute_order_always(dr) == TRUE

should_execute_order(dr) ==
    IF dr THEN FALSE ELSE TRUE

\* TradingService.is_backend_available: the service has a backend once it
\* is constructed, and answers what the backend's is_available() answers.
is_backend_available(av) ==
    av

\* What a call of place_order on a backend gives: the status of the result
\* ("error" for an exception), whether a request went to the broker, and
\* what the result says of the order's id and fill price.  A dry run is
\* answered before the backend looks at _initialized; the result of a dry
\* run names no order and no price.  An initialized backend raises before
\* the request (a symbol it does not know) or after it (a refused order).
place_order(bk, dr, init, order, ticket) ==
    IF dr
    THEN {[status |-> "dry_run", sent |-> FALSE,
           position_id |-> NoneId, price |-> order.price]}
    ELSE IF ~init
    THEN {[status |-> "error", sent |-> FALSE,
           position_id |-> NoneId, price |-> None]}
    ELSE {[status |-> "error", sent |-> was_sent,
           position_id |-> NoneId, price |-> None] : was_sent \in BOOLEAN}
         \cup {[status |-> "success", sent |-> TRUE,
                position_id |-> id, price |-> fill] :
                  id \in result_position_id(bk, ticket),
                  fill \in {order.price, 2 * MaxSig}}

\* TradingService.execute_order: the calls of place_order it makes, and
\* the result of the last.
\* Variant: a failed placement is tried a second time.
execute_order_retrying(bk, dr, init, order, ticket) ==
    {[result |-> r, calls |-> IF r.status = "error" THEN 2 ELSE 1] :
        r \in place_order(bk, dr, init, order, ticket)}

execute_order(bk, dr, init, order, ticket) ==
    {[result |-> r, calls |-> 1] : r \in place_order(bk, dr, init, order, ticket)}

\* What is kept of one run of handle_signal_message or of one direct call
\* of place_order.
Handled(via, sig, kind, calls, status, sent, tracked) ==
    [via |-> via, signal |-> sig, kind |-> kind, place_calls |-> calls,
     status |-> status, sent |-> sent, tracked |-> tracked]

\* SignalBot.handle_signal_message, the whole handler for one message.
HandleMessage ==
    /\ messages # <<>>
    /\ messages' = Tail(messages)
    /\ LET sig == Head(messages)
           dec == IF is_valid(sig) THEN create_order_from_signal(sig, risk)
                  ELSE NoDecision
           order == dec.order
           ticket == Cardinality(DOMAIN broker) + 1
           goes == /\ is_valid(sig)
                   /\ dec.kind = "order"
                   /\ should_execute_order(dry_run)
                   /\ is_backend_available(available)
       IN  IF ~goes
           THEN /\ handled' = Append(handled,
                       Handled("message", sig, dec.kind, 0, "none", FALSE, FALSE))
                /\ UNCHANGED <<positions, tasks, broker, applied, failed, risk>>
           ELSE \E done \in execute_order(backend, dry_run, initialized, order, ticket) :
                  LET result == done.result
                      tracks == result.status # "error" /\ Len(order.take_profits) > 1
                  IN  /\ handled' = Append(handled,
                             Handled("message", sig, dec.kind, done.calls,
                                     result.status, result.sent, tracks))
                      /\ broker' = IF result.status = "success"
                                   THEN Put(broker, ticket, order.volume)
                                   ELSE broker
                      /\ IF tracks
                         THEN /\ positions' = add_position(positions, result.position_id,
                                                           order, result.price)
                              /\ applied' = Put(applied, result.position_id, NoLevels)
                              /\ failed' = Put(failed, result.position_id,
                                               [close |-> {}, sl |-> FALSE])
                              /\ tasks' = Append(tasks,
                                     [position_id |-> result.position_id,
                                      pc |-> "start", actions |-> <<>>])
                         ELSE UNCHANGED <<positions, applied, failed, tasks>>
                      /\ IF result.status = "error"
                         THEN UNCHANGED risk
                         ELSE \E balance \in {None} \cup Balances :
                                risk' = IF balance = None THEN risk
                                        ELSE update_account_balance(risk, balance)
    /\ UNCHANGED <<inbox, closed, last, backend, signal, decisions, sizing,
                   validation, dry_run, available, initialized, text>>

\* A caller other than the handler calls place_order on the backend.
DirectPlaceOrder ==
    /\ Len(handled) + Len(messages) < MaxMessages
    /\ \E sig \in PipeSignals :
         LET dec == create_order_from_signal(sig, DefaultRisk)
             ticket == Cardinality(DOMAIN broker) + 1
         IN  /\ dec.kind = "order"
             /\ \E result \in place_order(backend, dry_run, initialized, dec.order, ticket) :
                  /\ handled' = Append(handled,
                         Handled("direct", sig, dec.kind, 1,
                                 result.status, result.sent, FALSE))
                  /\ broker' = IF result.status = "success"
                               THEN Put(broker, ticket, dec.order.volume)
                               ELSE broker
    /\ UNCHANGED <<inbox, positions, tasks, closed, applied, failed, last, backend,
                   decision, validation, messages, dry_run, available, initialized, text>>

\* The bot once TradingService is constructed: a backend that is not
\* available is accepted in a dry run only, and only an available backend
\* is initialized, which may fail.
InitPipe ==
    /\ inbox = <<>>
    /\ positions = <<>>
    /\ tasks = <<>>
    /\ broker = <<>>
    /\ closed = <<>>
    /\ applied = <<>>
    /\ failed = <<>>
    /\ last = NoStep
    /\ backend \in {"mt5", "ctrader"}
    /\ signal = NoSignal
    /\ risk \in PipeRisks
    /\ decisions = <<>>
    /\ sizing = NoSizing
    /\ validation = NoValidation
    /\ messages \in UNION {[1..n -> PipeSignals] : n \in 0..MaxMessages}
    /\ dry_run \in BOOLEAN
    /\ available \in BOOLEAN
    /\ initialized \in BOOLEAN
    /\ ~available => (dry_run /\ ~initialized)
    /\ handled = <<>>
    /\ text = <<>>

NextPipe == HandleMessage \/ DirectPlaceOrder

SpecPipe == InitPipe /\ [][NextPipe]_vars

\* The step is one run of handle_signal_message.
HandlerStep ==
    /\ messages # <<>>
    /\ messages' = Tail(messages)
    /\ Len(handled') = Len(handled) + 1

\* The volume OrderService computes for a signal.
ComputedVolume(sig, rm) ==
    LET decided == determine_order_type_and_price(sig)
    IN  calculate_position_size(rm,
            IF truthy(decided.price) THEN decided.price ELSE None,
            IF truthy(sig.stop_loss) THEN sig.stop_loss ELSE None, PipSize)

\* The order computed for a valid signal is outside the volume limits.
RiskRejects(sig, rm) ==
    /\ is_valid(sig)
    /\ \/ ComputedVolume(sig, rm) < rm.min_volume
       \/ ComputedVolume(sig, rm) > rm.max_volume

\* C23: a message whose signal is not valid, or whose computed order fails
\* risk validation, is skipped: place_order is not called, no position is
\* tracked and no task started, and the handler can take the next message.
C23_RejectedNeverPlaced ==
    /\ [][(HandlerStep /\ (~is_valid(Head(messages)) \/ RiskRejects(Head(messages), risk)))
           => /\ handled'[Len(handled')].place_calls = 0
              /\ UNCHANGED <<positions, tasks, broker>>]_vars
    /\ [](messages # <<>> => ENABLED HandleMessage)

C23_Witness ==
    /\ Len(handled) = 2
    /\ handled[1].via = "message"
    /\ RiskRejects(handled[1].signal, risk)
    /\ handled[1].place_calls = 0
    /\ handled[2].via = "message"
    /\ handled[2].status = "success"
    /\ handled[2].tracked
    /\ Cardinality(DOMAIN positions) = 1

\* C24: for one message place_order is invoked at most once, and when the
\* invocation fails no position is tracked and no monitoring task started.
C24_PlacedAtMostOnce ==
    [][HandlerStep
       => /\ handled'[Len(handled')].place_calls <= 1
          /\ handled'[Len(handled')].status = "error"
               => UNCHANGED <<positions, tasks>>]_vars

C24_Witness ==
    \E i \in 1..Len(handled) :
        /\ handled[i].via = "message"
        /\ handled[i].status = "error"
        /\ handled[i].place_calls = 1
        /\ Len(order_take_profits(handled[i].signal)) > 1
        /\ positions = <<>>
        /\ tasks = <<>>

\* C25: in a dry run nothing is sent to the broker: the handler does not
\* call place_order, and a direct call of place_order answers with status
\* "dry_run" without a request, whether or not the backend is initialized.
C25_DryRunSendsNothing ==
    dry_run
    => /\ broker = <<>>
       /\ \A i \in 1..Len(handled) :
            /\ ~handled[i].sent
            /\ handled[i].via = "message"
                 => (handled[i].place_calls = 0 /\ ~handled[i].tracked)
            /\ handled[i].via = "direct" => handled[i].status = "dry_run"

C25_Witness ==
    /\ dry_run
    /\ ~initialized
    /\ \E i \in 1..Len(handled) :
          handled[i].via = "direct" /\ handled[i].status = "dry_run"
    /\ \E i \in 1..Len(handled) :
          handled[i].via = "message" /\ handled[i].kind = "order"

====
